---- MODULE Spec2Model ----
(***************************************************************************)
(* Model of the lock-free linear-probing hashtable of src/hashtable.h, as  *)
(* instantiated and driven by src/hashtable_test.cpp.                      *)
(*                                                                         *)
(* Every access to shared memory (a slot's key, a slot's data, a counter   *)
(* of __stat) is one atomic step of the calling thread; the steps of the   *)
(* threads interleave freely.  The plain "counter++" of the code is a load *)
(* followed by a store.  A call's local set-up is merged with its first    *)
(* shared access and its return with its last.  Accesses take effect in    *)
(* program order (the compare-and-swap and the barrier of remove are full  *)
(* fences; a racing plain load of a slot's data reads the old or the new   *)
(* value, as the interleaving has it).                                     *)
(***************************************************************************)
EXTENDS Integers, Sequences, FiniteSets, TLC

(***************************************************************************)
(* Bounds of the model.                                                    *)
(***************************************************************************)
\* hashtable_t.bits of the table (the test uses 8)
HASHTABLE_BITS == 1
\* max_tries of DECLARE_HASHTABLE, the length of a probe chain (the test uses 4)
max_tries == 2
\* number of concurrent threads (the test starts 4)
NThreads == 2
\* values a caller passes to insert: 1..MaxVal
MaxVal == 2
\* calls thread 0 makes under Spec
MaxOps == 3
\* calls each other thread makes under Spec
MinOps == 2
\* calls the single thread makes under SpecSeq
SeqOps == 6
\* iterations of thread_job's loop under SpecChurn
ChurnIters == 2
\* entries of hashtable_registry (the code has 64)
RegistrySize == 2
\* calls of insert, remove and find the thread makes under SpecReg
RegOps == 3
\* the most keys the thread inserts under SpecFill
FillMax == 3
MaxLen == 200

(***************************************************************************)
(* illegal_key and illegal_data of DECLARE_HASHTABLE(uint32, uint32_t, 4,  *)
(* 0, 0).                                                                  *)
(***************************************************************************)
illegal_key == 0
illegal_data == 0

\* an output location the callee has not written (uint32_t found_value;)
Undef == 0 - 1

RECURSIVE Pow2(_)
Pow2(n) == IF n = 0 THEN 1 ELSE 2 * Pow2(n - 1)

\* a & b on naturals
RECURSIVE BitAnd(_, _)
BitAnd(a, b) ==
    IF a = 0 \/ b = 0 THEN 0
    ELSE (a % 2) * (b % 2) + 2 * BitAnd(a \div 2, b \div 2)

\* width of a key in bits (uint32_t in the code): wide enough for the test's keys
KeyBits == HASHTABLE_BITS + NThreads + 1

\* ~k on a key
BitNot(k) == (Pow2(KeyBits) - 1) - k

\* hashtable->__size = (1 << hashtable->bits)
size == Pow2(HASHTABLE_BITS)

\* number of slots allocated: (1 << bits) + max_tries
slots == size + max_tries

hash_none(key) == key

\* hashtable->hashfunction: the test's table is {"hash", HASHTABLE_BITS, hash_none}
hashfunction(key) == hash_none(key)

hashtable_get_index_nomask(hash) == hash
hashtable_get_index(hash) == BitAnd(hash, size - 1)

\* the test's colliding keys: (1 << HASHTABLE_BITS) << idx
get_value_collision(idx) == size * Pow2(idx)

StatNames == {"insert", "remove", "search", "collision", "overwritten",
              "insert_err", "remove_err", "search_ok", "search_err"}

VARIABLES
    table,   \* hashtable->__table: slot index -> [key, data]
    stat,    \* hashtable->__stat
    frame,   \* per thread: the call in progress (or the last one, at pc "idle")
    task,    \* per thread: the caller's program state
    hist,    \* history, per owned key: what its owner last did to it
    obs,     \* history, per thread: what the call in progress has seen
    hashtable_registry,  \* registry index -> a table, or NULL
    heap,    \* per table: the state of the memory its __table points to
    last     \* history: the last call of init, close or a registry function

vars == <<table, stat, frame, task, hist, obs, hashtable_registry, heap, last>>

Threads == DOMAIN frame

(***************************************************************************)
(* The registry.  A table is the address of a hashtable_t: 1 is the test's *)
(* "hashtable", the table whose slots and counters are the variables table *)
(* and stat; the others are tables on which no insert, find or remove is   *)
(* called, so that only their address and their memory matter.             *)
(***************************************************************************)
NULL == 0

\* one table more than the registry has entries
Tables == 1 .. RegistrySize + 1

\* static hashtable_t *hashtable_registry[64]: all NULL at the start
registry_init == [i \in 0 .. RegistrySize - 1 |-> NULL]

\* the first index at which the loops of hashtable_registry_add stop
RECURSIVE registry_scan(_, _, _)
registry_scan(reg, tb, i) ==
    IF i >= RegistrySize THEN i
    ELSE IF reg[i] = tb \/ reg[i] = NULL THEN i
    ELSE registry_scan(reg, tb, i + 1)

\* hashtable_registry_add(table): the registry afterwards
hashtable_registry_add_evict(reg, tb) ==
    LET i == registry_scan(reg, tb, 0)
    IN  IF i >= RegistrySize THEN [reg EXCEPT ![0] = tb]
        ELSE IF reg[i] = tb THEN reg
        ELSE [reg EXCEPT ![i] = tb]
hashtable_registry_add(reg, tb) ==
    LET i == registry_scan(reg, tb, 0)
    IN  IF i >= RegistrySize THEN reg
        ELSE IF reg[i] = tb THEN reg
        ELSE [reg EXCEPT ![i] = tb]

\* hashtable_registry_remove(table): the registry afterwards
hashtable_registry_remove_first(reg, tb) ==
    [i \in DOMAIN reg |->
        IF reg[i] = tb /\ \A j \in 0 .. i - 1 : reg[j] # tb THEN NULL ELSE reg[i]]
hashtable_registry_remove(reg, tb) ==
    [i \in DOMAIN reg |-> IF reg[i] = tb THEN NULL ELSE reg[i]]

\* the memory of every table but the test's (a static, initialised in main)
heap_init == [tb \in Tables |-> "null"]

\* the entries of the registry reg that refer to table tb
Entries(reg, tb) == {i \in DOMAIN reg : reg[i] = tb}

\* the last call of init, close, hashtable_registry_add or
\* hashtable_registry_remove: op and tb, the call; mem, whether its allocation
\* succeeded; rc, what it returned; n0, how many entries referred to tb when it
\* was called; full, whether every entry then referred to another table; keep,
\* whether it left the entries that referred to other tables as they were;
\* same, whether it left the whole registry as it was; order, the tables that
\* have an entry, in the order in which they got one; rows, what the call
\* printed; len, the length of the buffer it printed to; chars, the count it
\* returned; top, the highest offset of the buffer it wrote; over, whether its
\* running offset ever exceeded len
NoLast == [op |-> "none", tb |-> NULL, mem |-> FALSE, rc |-> 0, n0 |-> 0,
           full |-> FALSE, keep |-> TRUE, same |-> TRUE, order |-> <<>>, rows |-> <<>>,
           len |-> 0, chars |-> 0, top |-> Undef, over |-> FALSE]

\* the tables in the order in which they were registered, after a call for
\* table tb has made reg of the registry
Registered(reg, tb) ==
    IF Entries(reg, tb) = {} THEN SelectSeq(last.order, LAMBDA x : x # tb)
    ELSE IF Entries(hashtable_registry, tb) = {} THEN Append(last.order, tb)
    ELSE last.order

\* hashtable_show(buf, len) with a buffer long enough: the rows printed, the
\* header and then the name of the table of every entry that is not NULL
hashtable_show(reg) ==
    LET entry == [i \in 1 .. RegistrySize |-> reg[i - 1]]
    IN  <<"Name">> \o SelectSeq(entry, LAMBDA x : x # NULL)

LastOf(op, tb, mem, rc, reg) ==
    [op |-> op, tb |-> tb, mem |-> mem, rc |-> rc,
     n0 |-> Cardinality(Entries(hashtable_registry, tb)),
     full |-> \A i \in DOMAIN hashtable_registry :
                 hashtable_registry[i] \notin {NULL, tb},
     keep |-> \A i \in DOMAIN hashtable_registry :
                 hashtable_registry[i] \notin {NULL, tb} => reg[i] = hashtable_registry[i],
     same |-> reg = hashtable_registry,
     order |-> Registered(reg, tb), rows |-> <<>>,
     len |-> 0, chars |-> 0, top |-> Undef, over |-> FALSE]

\* the widths of the formats "%-25s" and "%12s", "%12zu", "%12" PRIu64
NameWidth == 25
NumWidth == 12

\* size_t counts modulo 2^64; the model counts modulo 2^30, the integers of
\* the model being narrower, and every length stays far below
SizeMax == 1073741824

\* the lengths of the strings that hashtable_show formats one after the other
\* for a header or a row that starts with a string of length first: the
\* start, one " %12s" per counter, and "\n" (names of at most NameWidth and
\* numbers of at most NumWidth characters)
show_line(first) ==
    <<first>> \o [i \in 1 .. Cardinality(StatNames) |-> 1 + NumWidth] \o <<1>>

RECURSIVE show_lines(_)
show_lines(n) ==
    IF n = 0 THEN <<>>
    ELSE show_line(NameWidth + 3 * (1 + NumWidth)) \o show_lines(n - 1)

show_pieces(reg) ==
    show_line(1 + NameWidth + 3 * (1 + NumWidth))
        \o show_lines(Len(hashtable_show(reg)) - 1)

\* what the C library does when snprintf is given a size above INT_MAX: it
\* formats as usual, or it returns -1 (EOVERFLOW) and writes nothing
Libc == {"format", "EOVERFLOW"}

\* rc = snprintf(buf+chars, len-chars, a string of length L); chars += rc
snprintf(acc, len, L, lib) ==
    LET n == (len - acc.chars) % SizeMax
        fails == n > len /\ lib = "EOVERFLOW"
        rc == IF fails THEN 0 - 1 ELSE L
        last_off == acc.chars + (IF L < n - 1 THEN L ELSE n - 1)
        chars == (acc.chars + rc) % SizeMax
    IN  [chars |-> chars,
         top |-> IF n = 0 \/ fails \/ last_off < acc.top THEN acc.top ELSE last_off,
         over |-> acc.over \/ chars > len]

RECURSIVE show_from(_, _, _, _, _)
show_from(pieces, i, len, lib, acc) ==
    IF i > Len(pieces) THEN acc
    ELSE show_from(pieces, i + 1, len, lib, snprintf(acc, len, pieces[i], lib))

\* hashtable_show(buf, len): the count returned, the highest offset written
\* and whether the running offset exceeded len
hashtable_show_buf(reg, len, lib) ==
    show_from(show_pieces(reg), 1, len, lib,
              [chars |-> 0, top |-> Undef, over |-> FALSE])

(***************************************************************************)
(* Construction.                                                           *)
(***************************************************************************)
init_slot == [key |-> illegal_key, data |-> illegal_data]

\* hashtable_##tokn##_init: every one of the size + max_tries slots is initialised
hashtable_init == [i \in 0 .. slots - 1 |-> init_slot]

\* static hashtable_t hashtable: the counters start at zero
stat_init == [n \in StatNames |-> 0]

NoFrame == [fn |-> "none", pc |-> "idle", key |-> illegal_key, data |-> illegal_data,
            need |-> FALSE, slot |-> 0, tmp |-> 0, out |-> Undef, rc |-> Undef]

\* what a call has seen: pre, the history of its key when it was called; ins (rem,
\* mut), whether an insert (a remove, either) of its key by the key's owner has
\* been in progress at some time during it; wrote, whether it has changed a slot;
\* inc, by how much each counter has changed since it was called; free0, whether
\* every slot was free when it was called; val0, the value last inserted for its
\* key when it was called
NoObs == [pre |-> "none", val0 |-> illegal_data, ins |-> FALSE, rem |-> FALSE,
          mut |-> FALSE, wrote |-> FALSE, inc |-> stat_init, free0 |-> TRUE,
          sat |-> FALSE, gone |-> FALSE]

\* a thread's program: the keys it owns (it alone inserts and removes them), the
\* keys it looks up, the values it stores; ins_seq lists the keys of its calls as
\* long as (only_ins) they have all been inserts of distinct keys; track says
\* whether the history obs[t].inc, obs[t].free0, obs[t].sat and obs[t].gone is
\* kept for its calls
NewTask(keys, look, vals, outs, budget, track) ==
    [calls |-> 0, state |-> "run", keys |-> keys, look |-> look, vals |-> vals,
     outs |-> outs, budget |-> budget, track |-> track,
     only_ins |-> TRUE, ins_seq |-> <<>>]

NoHist == [st |-> "none", val |-> illegal_data]

KeyHist(k) == IF k \in DOMAIN hist THEN hist[k] ELSE NoHist

(***************************************************************************)
(* The three operations, one shared-memory access per step.  Each operator *)
(* maps the frame f of a thread inside a call to the effect of its next    *)
(* step: the new slot array, the new counters and the new frame.  A frame  *)
(* back at pc "idle" has returned, with f.rc the return value.             *)
(***************************************************************************)
Eff(tb, st, f) == [table |-> tb, stat |-> st, f |-> f]

\* the store of "hashtable->__stat.name++", f.tmp being what its load read
Bump_lost(name, f) == stat
Bump(name, f) == [stat EXCEPT ![name] = f.tmp + 1]

\* the index of the home slot of f's key
home(key) == hashtable_get_index(hashfunction(key))

\* index_max = index + max_tries
slot_max_off(f) == home(f.key) + max_tries + 1
slot_max(f) == home(f.key) + max_tries

\* HASHTABLE_CMPXCHG(&slot->key, val, new_val): the slot array afterwards
cmpxchg_table_store(s, val, new_val) == [table EXCEPT ![s].key = new_val]
cmpxchg_table(s, val, new_val) ==
    IF table[s].key = val THEN [table EXCEPT ![s].key = new_val] ELSE table

\* insert: the compare-and-swap on the current slot, and the branch on its result
insert_cas(f) ==
    LET old_key == table[f.slot].key
        tb == cmpxchg_table(f.slot, illegal_key, f.key)
    IN  IF old_key = illegal_key THEN Eff(tb, stat, [f EXCEPT !.pc = "data_new"])
        ELSE IF old_key = f.key THEN Eff(tb, stat, [f EXCEPT !.pc = "data_ow"])
        ELSE Eff(tb, stat, [f EXCEPT !.pc = "col_ld"])

\* insert: the end of the loop's body after a collision (slot++, slot < slot_max)
insert_next_spin(f) == [f EXCEPT !.pc = "cas"]
insert_next(f) ==
    [f EXCEPT !.slot = @ + 1,
              !.pc = IF f.slot + 1 < slot_max(f) THEN "cas" ELSE "err_ld"]

hashtable_insert(f) ==
    CASE f.pc = "stat_st" ->
            Eff(table, Bump("insert", f), [f EXCEPT !.pc = "cas"])
      [] f.pc = "cas" -> insert_cas(f)
      [] f.pc = "data_new" ->
            Eff([table EXCEPT ![f.slot].data = f.data], stat,
                [f EXCEPT !.pc = "idle", !.rc = 1])
      [] f.pc = "data_ow" ->
            Eff([table EXCEPT ![f.slot].data = f.data], stat,
                [f EXCEPT !.pc = "ow_ld"])
      [] f.pc = "ow_ld" ->
            Eff(table, stat, [f EXCEPT !.pc = "ow_st", !.tmp = stat.overwritten])
      [] f.pc = "ow_st" ->
            Eff(table, Bump("overwritten", f), [f EXCEPT !.pc = "idle", !.rc = 1])
      [] f.pc = "col_ld" ->
            Eff(table, stat, [f EXCEPT !.pc = "col_st", !.tmp = stat.collision])
      [] f.pc = "col_st" ->
            Eff(table, Bump("collision", f), insert_next(f))
      [] f.pc = "err_ld" ->
            Eff(table, stat, [f EXCEPT !.pc = "err_st", !.tmp = stat.insert_err])
      [] f.pc = "err_st" ->
            Eff(table, Bump("insert_err", f), [f EXCEPT !.pc = "idle", !.rc = 0])

\* remove and find: the read of the current slot's key and the comparison with
\* the key looked for; on a mismatch the loop goes on (slot++, slot < slot_max)
probe_key_first(f) == [f EXCEPT !.pc = "match"]
probe_key_stop(f) ==
    IF table[f.slot].key = f.key
    THEN [f EXCEPT !.pc = "match"]
    ELSE [f EXCEPT !.slot = @ + 1,
                   !.pc = IF f.slot + 1 < slot_max(f) /\ table[f.slot].key # illegal_key
                          THEN "key_rd" ELSE "err_ld"]
probe_key(f) ==
    IF table[f.slot].key = f.key
    THEN [f EXCEPT !.pc = "match"]
    ELSE [f EXCEPT !.slot = @ + 1,
                   !.pc = IF f.slot + 1 < slot_max(f) THEN "key_rd" ELSE "err_ld"]

\* remove: remove_err++ (its store) and return 0
remove_fail_silent(f) == Eff(table, stat, [f EXCEPT !.pc = "idle", !.rc = 0])
remove_fail(f) == Eff(table, Bump("remove_err", f), [f EXCEPT !.pc = "idle", !.rc = 0])

hashtable_remove_key_first(f) ==
    CASE f.pc = "stat_st" ->
            Eff(table, Bump("remove", f), [f EXCEPT !.pc = "key_rd"])
      [] f.pc = "key_rd" ->
            LET g == probe_key(f)
            IN  Eff(table, stat,
                    IF g.pc = "match"
                    THEN [g EXCEPT !.pc = IF f.need THEN "data_rd" ELSE "data_wr"]
                    ELSE g)
      [] f.pc = "data_rd" ->
            Eff(table, stat, [f EXCEPT !.pc = "data_wr", !.out = table[f.slot].data])
      [] f.pc = "data_wr" ->
            Eff([table EXCEPT ![f.slot].key = illegal_key], stat,
                [f EXCEPT !.pc = "key_wr"])
      [] f.pc = "key_wr" ->
            Eff([table EXCEPT ![f.slot].data = illegal_data], stat,
                [f EXCEPT !.pc = "idle", !.rc = 1])
      [] f.pc = "err_ld" ->
            Eff(table, stat, [f EXCEPT !.pc = "err_st", !.tmp = stat.remove_err])
      [] f.pc = "err_st" -> remove_fail(f)

hashtable_remove(f) ==
    CASE f.pc = "stat_st" ->
            Eff(table, Bump("remove", f), [f EXCEPT !.pc = "key_rd"])
      [] f.pc = "key_rd" ->
            LET g == probe_key(f)
            IN  Eff(table, stat,
                    IF g.pc = "match"
                    THEN [g EXCEPT !.pc = IF f.need THEN "data_rd" ELSE "data_wr"]
                    ELSE g)
      [] f.pc = "data_rd" ->
            Eff(table, stat, [f EXCEPT !.pc = "data_wr", !.out = table[f.slot].data])
      [] f.pc = "data_wr" ->
            Eff([table EXCEPT ![f.slot].data = illegal_data], stat,
                [f EXCEPT !.pc = "key_wr"])
      [] f.pc = "key_wr" ->
            Eff([table EXCEPT ![f.slot].key = illegal_key], stat,
                [f EXCEPT !.pc = "idle", !.rc = 1])
      [] f.pc = "err_ld" ->
            Eff(table, stat, [f EXCEPT !.pc = "err_st", !.tmp = stat.remove_err])
      [] f.pc = "err_st" -> remove_fail(f)

\* find: *data = slot->data
find_data_take(f) ==
    Eff([table EXCEPT ![f.slot].data = illegal_data], stat,
        [f EXCEPT !.pc = "ok_ld", !.out = table[f.slot].data])
find_data_home(f) ==
    Eff(table, stat, [f EXCEPT !.pc = "ok_ld", !.out = table[home(f.key)].data])
find_data(f) ==
    Eff(table, stat, [f EXCEPT !.pc = "ok_ld", !.out = table[f.slot].data])

hashtable_find(f) ==
    CASE f.pc = "stat_st" ->
            Eff(table, Bump("search", f), [f EXCEPT !.pc = "key_rd"])
      [] f.pc = "key_rd" ->
            LET g == probe_key(f)
            IN  Eff(table, stat,
                    IF g.pc = "match" THEN [g EXCEPT !.pc = "data_rd"] ELSE g)
      [] f.pc = "data_rd" -> find_data(f)
      [] f.pc = "ok_ld" ->
            Eff(table, stat, [f EXCEPT !.pc = "ok_st", !.tmp = stat.search_ok])
      [] f.pc = "ok_st" ->
            Eff(table, Bump("search_ok", f), [f EXCEPT !.pc = "idle", !.rc = 1])
      [] f.pc = "err_ld" ->
            Eff(table, stat, [f EXCEPT !.pc = "err_st", !.tmp = stat.search_err])
      [] f.pc = "err_st" ->
            Eff(table, Bump("search_err", f), [f EXCEPT !.pc = "idle", !.rc = 0])

(***************************************************************************)
(* Calls and steps of a thread.                                            *)
(***************************************************************************)
AllFree == \A i \in DOMAIN table : table[i].key = illegal_key

\* no slot that a find of key k reads holds k
Absent(tb, k) ==
    \A i \in home(k) .. home(k) + max_tries - 1 : tb[i].key # k

\* every slot that an insert of key k tries holds a key other than k
Saturated(tb, k) ==
    \A i \in home(k) .. home(k) + max_tries - 1 : tb[i].key \notin {illegal_key, k}

\* the counter a function increments on entry
EntryStat(fn) ==
    CASE fn = "insert" -> "insert" [] fn = "remove" -> "remove" [] fn = "find" -> "search"

\* thread t enters fn(key, data): the local set-up and the load of "counter++"
Call(t, fn, k, d, need) ==
    /\ frame[t].pc = "idle"
    /\ frame' = [frame EXCEPT ![t] =
                    [fn |-> fn, pc |-> "stat_st", key |-> k, data |-> d, need |-> need,
                     slot |-> home(k),
                     tmp |-> stat[EntryStat(fn)], out |-> Undef, rc |-> Undef]]
    /\ LET fresh == /\ task[t].only_ins /\ fn = "insert"
                     /\ \A j \in 1 .. Len(task[t].ins_seq) : task[t].ins_seq[j] # k
       IN  task' = [task EXCEPT ![t].calls = @ + 1,
                                ![t].only_ins = fresh,
                                ![t].ins_seq = IF fresh THEN Append(@, k) ELSE <<>>]
    /\ hist' = IF fn = "insert" THEN [hist EXCEPT ![k].st = "inserting"]
               ELSE IF fn = "remove" THEN [hist EXCEPT ![k].st = "removing"]
               ELSE hist
    /\ obs' = [u \in Threads |->
                 IF u = t
                 THEN [pre |-> KeyHist(k).st, val0 |-> KeyHist(k).val,
                       ins |-> KeyHist(k).st = "inserting",
                       rem |-> KeyHist(k).st = "removing",
                       mut |-> KeyHist(k).st \in {"inserting", "removing"},
                       wrote |-> FALSE, inc |-> stat_init,
                       free0 |-> task[t].track /\ AllFree,
                       sat |-> task[t].track /\ Saturated(table, k),
                       gone |-> task[t].track /\ Absent(table, k)]
                 ELSE IF /\ fn # "find"
                         /\ frame[u].pc # "idle" /\ frame[u].fn = "find" /\ frame[u].key = k
                 THEN [obs[u] EXCEPT !.mut = TRUE, !.ins = @ \/ fn = "insert",
                                      !.rem = @ \/ fn = "remove"]
                 ELSE obs[u]]
    /\ UNCHANGED <<table, stat, hashtable_registry, heap, last>>

\* the frame of a call that has returned keeps its arguments and its results only
Returned(f) == IF f.pc = "idle" THEN [f EXCEPT !.slot = 0, !.tmp = 0] ELSE f

\* thread t takes the step with effect e
Step(t, e) ==
    /\ table' = e.table
    /\ stat' = e.stat
    /\ frame' = [frame EXCEPT ![t] = Returned(e.f)]
    /\ obs' = [u \in Threads |->
                 IF frame[u].pc = "idle" THEN obs[u]
                 ELSE [obs[u] EXCEPT
                          !.wrote = @ \/ (u = t /\ e.table # table),
                          !.sat = @ \/ (task[u].track /\ Saturated(e.table, frame[u].key)),
                          !.gone = @ \/ (task[u].track /\ Absent(e.table, frame[u].key)),
                          !.inc = IF task[u].track
                                  THEN [n \in StatNames |-> @[n] + e.stat[n] - stat[n]]
                                  ELSE @]]
    /\ hist' = IF e.f.pc = "idle" /\ e.f.fn = "insert"
               THEN [hist EXCEPT ![e.f.key] =
                        IF e.f.rc = 1 THEN [st |-> "inserted", val |-> e.f.data]
                        ELSE [@ EXCEPT !.st = "none"]]
               ELSE IF e.f.pc = "idle" /\ e.f.fn = "remove"
               THEN [hist EXCEPT ![e.f.key].st = IF e.f.rc = 1 THEN "removed" ELSE "none"]
               ELSE hist
    /\ UNCHANGED <<task, hashtable_registry, heap, last>>

Running(t, fn) == frame[t].pc # "idle" /\ frame[t].fn = fn

insert_step(t) == Running(t, "insert") /\ Step(t, hashtable_insert(frame[t]))
remove_step(t) == Running(t, "remove") /\ Step(t, hashtable_remove(frame[t]))
find_step(t) == Running(t, "find") /\ Step(t, hashtable_find(frame[t]))

(***************************************************************************)
(* Spec: NThreads threads, thread idx owning the test's key                *)
(* get_value_collision(idx); each makes up to MaxOps calls, in any order:  *)
(* insert or remove of its own key, find of any key.                       *)
(***************************************************************************)
Values == 1 .. MaxVal

TestKeys == {get_value_collision(i) : i \in 0 .. NThreads - 1}

InitTable(tasks) ==
    /\ table = hashtable_init
    /\ stat = stat_init
    /\ task = tasks
    /\ frame = [t \in DOMAIN tasks |-> NoFrame]
    /\ obs = [t \in DOMAIN tasks |-> NoObs]
    /\ hist = [k \in UNION {tasks[t].keys : t \in DOMAIN tasks} |-> NoHist]
    /\ hashtable_registry = hashtable_registry_add(registry_init, 1)
    /\ heap = [heap_init EXCEPT ![1] = "live"]
    /\ last = [NoLast EXCEPT !.order = <<1>>]

\* calls thread t may make: MaxOps for thread 0, MinOps for the others
Budget(t) == IF t = 0 THEN MaxOps ELSE MinOps

Init ==
    InitTable([t \in 0 .. NThreads - 1 |->
                  NewTask({get_value_collision(t)}, TestKeys, Values, {TRUE}, Budget(t),
                          FALSE)])

insert_call(t) ==
    /\ task[t].calls < task[t].budget
    /\ \E k \in task[t].keys, d \in task[t].vals : Call(t, "insert", k, d, FALSE)

remove_call(t) ==
    /\ task[t].calls < task[t].budget
    /\ \E k \in task[t].keys, need \in task[t].outs :
          Call(t, "remove", k, illegal_data, need)

find_call(t) ==
    /\ task[t].calls < task[t].budget
    /\ \E k \in task[t].look : Call(t, "find", k, illegal_data, TRUE)

Next ==
    \E t \in Threads :
        \/ insert_call(t)
        \/ remove_call(t)
        \/ find_call(t)
        \/ insert_step(t)
        \/ remove_step(t)
        \/ find_step(t)

Spec == Init /\ [][Next]_vars

(***************************************************************************)
(* SpecSeq: one thread owning max_tries + 1 keys that share home index 0   *)
(* (size, 2*size, ...: the keys 256, 512, ... of a table of 256 slots),    *)
(* making up to SeqOps calls in any order.                                 *)
(***************************************************************************)
SeqKeys(h) == {size * i + h : i \in 1 .. max_tries + 1}

InitSeq ==
    \E h \in 0 .. size - 1 :
        InitTable([t \in {0} |->
                      NewTask(SeqKeys(h), SeqKeys(h), Values, BOOLEAN, SeqOps, TRUE)])

SpecSeq == InitSeq /\ [][Next]_vars

(***************************************************************************)
(* One thread whose keys include get_value(0) = 0, the key that            *)
(* synchronous_access starts with and that equals illegal_key.             *)
(***************************************************************************)
ZeroKeys == {illegal_key, size}

InitZero ==
    InitTable([t \in {0} |->
                  NewTask(ZeroKeys, ZeroKeys, Values, BOOLEAN, MaxOps, TRUE)])

SpecZero == InitZero /\ [][Next]_vars

(***************************************************************************)
(* SpecChurn: the test's threads.  Thread idx runs thread_job(idx): in a   *)
(* loop, insert its key (the value is the key), find it, find its          *)
(* complement, remove it, find it; it returns as soon as a call's result   *)
(* is not the one it expects.                                              *)
(***************************************************************************)
\* the checks thread_job makes on the result of its last call
Expected(t) ==
    LET f == frame[t]
        value_to_store == get_value_collision(t)
        pos == (task[t].calls - 1) % 5
    IN  CASE pos = 0 -> f.rc # 0
          [] pos = 1 -> f.rc # 0 /\ f.out = value_to_store
          [] pos = 2 -> f.rc = 0
          [] pos = 3 -> f.rc # 0 /\ f.out = value_to_store
          [] pos = 4 -> f.rc = 0

thread_job(t) ==
    LET value_to_store == get_value_collision(t)
        pos == task[t].calls % 5
    IN  /\ frame[t].pc = "idle"
        /\ task[t].state = "run"
        /\ IF task[t].calls > 0 /\ ~Expected(t)
           THEN /\ task' = [task EXCEPT ![t].state = "error"]
                /\ UNCHANGED <<table, stat, frame, hist, obs,
                                hashtable_registry, heap, last>>
           ELSE /\ task[t].calls < task[t].budget
                /\ CASE pos = 0 -> Call(t, "insert", value_to_store, value_to_store, FALSE)
                     [] pos = 1 -> Call(t, "find", value_to_store, illegal_data, TRUE)
                     [] pos = 2 -> Call(t, "find", BitNot(value_to_store), illegal_data, TRUE)
                     [] pos = 3 -> Call(t, "remove", value_to_store, illegal_data, TRUE)
                     [] pos = 4 -> Call(t, "find", value_to_store, illegal_data, TRUE)

InitChurn ==
    InitTable([t \in 0 .. NThreads - 1 |->
                  NewTask({get_value_collision(t)},
                          {get_value_collision(t), BitNot(get_value_collision(t))},
                          {get_value_collision(t)}, {TRUE}, 5 * ChurnIters, FALSE)])

NextChurn ==
    \E t \in Threads :
        \/ thread_job(t)
        \/ insert_step(t)
        \/ remove_step(t)
        \/ find_step(t)

SpecChurn == InitChurn /\ [][NextChurn]_vars

(***************************************************************************)
(* SpecRace: callers that do not keep to the single-writer-per-key rule.   *)
(* Every thread inserts, removes and looks up every one of the test's      *)
(* keys, up to MinOps calls each, in any order.                            *)
(***************************************************************************)
InitRace ==
    InitTable([t \in 0 .. NThreads - 1 |->
                  NewTask(TestKeys, TestKeys, Values, {TRUE}, MinOps, FALSE)])

SpecRace == InitRace /\ [][Next]_vars

(***************************************************************************)
(* The threads of Spec, each storing values no other thread stores, as     *)
(* thread_job does with value_to_store: the value found in a slot then     *)
(* tells which key it was stored for.                                      *)
(***************************************************************************)
ValuesOf(t) == {t * MaxVal + v : v \in Values}

InitTag ==
    InitTable([t \in 0 .. NThreads - 1 |->
                  NewTask({get_value_collision(t)}, TestKeys, ValuesOf(t), {TRUE},
                          Budget(t), FALSE)])

SpecTag == InitTag /\ [][Next]_vars

(***************************************************************************)
(* Thread 0 inserts one key while thread 1 inserts and removes a key with  *)
(* the same home slot and keys whose home slots are the other slots of     *)
(* thread 0's probe window.                                                *)
(***************************************************************************)
SatKeys(t) ==
    IF t = 0 THEN {get_value_collision(0)}
    ELSE {get_value_collision(t)} \cup (1 .. max_tries - 1)

InitSat ==
    InitTable([t \in 0 .. NThreads - 1 |->
                  NewTask(SatKeys(t), SatKeys(t), {MaxVal}, {FALSE},
                          IF t = 0 THEN MinOps ELSE MaxOps, t = 0)])

SpecSat == InitSat /\ [][Next]_vars

(***************************************************************************)
(* Thread 1 alone inserts and removes the keys of the test, which share    *)
(* their home slot, storing with each key the key itself as thread_job     *)
(* does; the other threads look the keys up.                               *)
(***************************************************************************)
insert_own(t) ==
    /\ task[t].calls < task[t].budget
    /\ \E k \in task[t].keys : Call(t, "insert", k, k, FALSE)

InitReuse ==
    InitTable([t \in 0 .. NThreads - 1 |->
                  IF t = 1
                  THEN NewTask(TestKeys, {}, TestKeys, {FALSE}, MaxOps + MinOps, FALSE)
                  ELSE NewTask({}, TestKeys, {}, {FALSE}, MinOps - 1, TRUE)])

NextReuse ==
    \E t \in Threads :
        \/ insert_own(t)
        \/ remove_call(t)
        \/ find_call(t)
        \/ insert_step(t)
        \/ remove_step(t)
        \/ find_step(t)

SpecReuse == InitReuse /\ [][NextReuse]_vars

(***************************************************************************)
(* SpecReg: one thread constructs and destroys tables and calls the        *)
(* registry functions, in any order and on any of the tables; on the       *)
(* test's table, while it is allocated, it makes up to RegOps calls of     *)
(* insert, remove and find with one key.  An allocation may fail.          *)
(***************************************************************************)
\* no slot array: __table is NULL, or the memory it points to has been freed
NoTable == << >>

Quiet == \A t \in Threads : frame[t].pc = "idle"

\* hashtable_registry_add(tb), called directly
registry_add_call(tb) ==
    /\ Quiet
    /\ hashtable_registry' = hashtable_registry_add(hashtable_registry, tb)
    /\ last' = LastOf("add", tb, FALSE, 0, hashtable_registry')
    /\ UNCHANGED <<table, stat, frame, task, hist, obs, heap>>

\* hashtable_registry_remove(tb), called directly
registry_remove_call(tb) ==
    /\ Quiet
    /\ hashtable_registry' = hashtable_registry_remove(hashtable_registry, tb)
    /\ last' = LastOf("remove", tb, FALSE, 0, hashtable_registry')
    /\ UNCHANGED <<table, stat, frame, task, hist, obs, heap>>

\* hashtable_##tokn##_init(tb), p telling whether hashtable_alloc returns memory;
\* the calls made on an earlier allocation of the table are forgotten
init_call(tb, p) ==
    /\ Quiet
    /\ IF p
       THEN /\ heap' = [heap EXCEPT ![tb] = "live"]
            /\ hashtable_registry' = hashtable_registry_add(hashtable_registry, tb)
            /\ last' = LastOf("init", tb, TRUE, 1, hashtable_registry')
            /\ IF tb = 1
               THEN /\ table' = hashtable_init
                    /\ frame' = [t \in Threads |-> NoFrame]
                    /\ obs' = [t \in Threads |-> NoObs]
                    /\ hist' = [k \in DOMAIN hist |-> NoHist]
               ELSE UNCHANGED <<table, frame, obs, hist>>
       ELSE /\ last' = LastOf("init", tb, FALSE, 0, hashtable_registry)
            /\ UNCHANGED <<table, frame, obs, hist, heap, hashtable_registry>>
    /\ UNCHANGED <<stat, task>>

\* hashtable_close(tb); closing a table twice frees its memory twice, which no
\* caller may do
hashtable_close(tb) ==
    /\ Quiet
    /\ heap[tb] # "freed"
    /\ heap' = [heap EXCEPT ![tb] = IF @ = "live" THEN "freed" ELSE @]
    /\ table' = IF tb = 1 /\ heap[tb] = "live" THEN NoTable ELSE table
    /\ hashtable_registry' = hashtable_registry_remove(hashtable_registry, tb)
    /\ last' = LastOf("close", tb, FALSE, 0, hashtable_registry')
    /\ UNCHANGED <<stat, frame, task, hist, obs>>

InitReg ==
    /\ table = NoTable
    /\ stat = stat_init
    /\ task = [t \in {0} |-> NewTask({size}, {size}, Values, {TRUE}, RegOps, FALSE)]
    /\ frame = [t \in {0} |-> NoFrame]
    /\ obs = [t \in {0} |-> NoObs]
    /\ hist = [k \in {size} |-> NoHist]
    /\ hashtable_registry = registry_init
    /\ heap = heap_init
    /\ last = NoLast

NextReg ==
    \/ \E tb \in Tables : registry_add_call(tb)
    \/ \E tb \in Tables : registry_remove_call(tb)
    \/ \E tb \in Tables, p \in BOOLEAN : init_call(tb, p)
    \/ \E tb \in Tables : hashtable_close(tb)
    \/ \E t \in Threads :
          \/ heap[1] = "live" /\ insert_call(t)
          \/ heap[1] = "live" /\ remove_call(t)
          \/ heap[1] = "live" /\ find_call(t)
          \/ insert_step(t)
          \/ remove_step(t)
          \/ find_step(t)

SpecReg == InitReg /\ [][NextReg]_vars

(***************************************************************************)
(* Tables are constructed and destroyed, and the registry is printed.  A   *)
(* dump changes nothing but last, so every table and registry that a dump  *)
(* can meet is met by a dump that follows another call.                    *)
(***************************************************************************)
show_call ==
    /\ Quiet
    /\ last.op # "show"
    /\ \E len \in 0 .. MaxLen, lib \in Libc :
          \E r \in {hashtable_show_buf(hashtable_registry, len, lib)} :
              last' = [NoLast EXCEPT !.op = "show", !.order = last.order,
                                     !.rows = hashtable_show(hashtable_registry),
                                     !.len = len, !.chars = r.chars,
                                     !.top = r.top, !.over = r.over]
    /\ UNCHANGED <<table, stat, frame, task, hist, obs, hashtable_registry, heap>>

NextShow ==
    \/ \E tb \in Tables, p \in BOOLEAN : init_call(tb, p)
    \/ \E tb \in Tables : hashtable_close(tb)
    \/ show_call

SpecShow == InitReg /\ [][NextShow]_vars

(***************************************************************************)
(* SpecFill: one thread, as in the test's synchronous_access, inserts the  *)
(* keys of a list of distinct keys, each with the key as its value, then   *)
(* looks each of them up, then removes each of them; it stops as soon as   *)
(* an insert or a remove does not return what synchronous_access expects.  *)
(***************************************************************************)
\* the keys to choose from: keys of every home index, more than a window holds
FillKeys == 1 .. 2 * size + 1

Range(q) == {q[j] : j \in DOMAIN q}

\* the lists of 1 .. FillMax distinct keys
Plans ==
    {p \in UNION {[1 .. n -> FillKeys] : n \in 1 .. FillMax} :
        \A i, j \in DOMAIN p : i # j => p[i] # p[j]}

\* the checks synchronous_access makes on the result of its last call (it makes
\* no lookups, and none is checked here)
FillExpected(t) ==
    LET f == frame[t]
    IN  CASE f.fn = "insert" -> f.rc # 0
          [] f.fn = "find" -> TRUE
          [] f.fn = "remove" -> f.rc # 0 /\ f.out = f.key

synchronous_access(t) ==
    LET plan == task[t].plan
        n == Len(plan)
        c == task[t].calls
    IN  /\ frame[t].pc = "idle"
        /\ task[t].state = "run"
        /\ IF c > 0 /\ ~FillExpected(t)
           THEN /\ task' = [task EXCEPT ![t].state = "error"]
                /\ UNCHANGED <<table, stat, frame, hist, obs,
                                hashtable_registry, heap, last>>
           ELSE /\ c < 3 * n
                /\ IF c < n THEN Call(t, "insert", plan[c + 1], plan[c + 1], FALSE)
                   ELSE IF c < 2 * n THEN Call(t, "find", plan[c - n + 1], illegal_data, TRUE)
                   ELSE Call(t, "remove", plan[c - 2 * n + 1], illegal_data, TRUE)

InitFill ==
    \E plan \in Plans :
        InitTable([t \in {0} |->
                      NewTask(Range(plan), Range(plan), Range(plan), {TRUE},
                              3 * Len(plan), FALSE) @@ [plan |-> plan]])

NextFill ==
    \E t \in Threads :
        \/ synchronous_access(t)
        \/ insert_step(t)
        \/ remove_step(t)
        \/ find_step(t)

SpecFill == InitFill /\ [][NextFill]_vars

(***************************************************************************)
(* The claims.                                                             *)
(***************************************************************************)
\* thread t's last call was fn and has returned
Done(t, fn) == frame[t].pc = "idle" /\ frame[t].fn = fn

\* the probe window of key k
Window(k) == home(k) .. home(k) + max_tries - 1

\* C1, as stated: a find(k) called after insert(k, v) has returned success and
\* before the owner's next insert or remove of k returns success with v (also
\* when it is still running while the owner calls remove(k) or insert(k, ...)).
C1_AsStated ==
    \A t \in Threads :
        Done(t, "find") /\ obs[t].pre = "inserted"
            => frame[t].rc = 1 /\ frame[t].out = obs[t].val0

\* C1, amended: a find(k) that is called after insert(k, v) has returned success
\* and returns before the owner calls remove(k) or insert(k, ...) again returns
\* success with v, whatever the other threads do to other keys meanwhile.
C1_FindStable ==
    \A t \in Threads :
        Done(t, "find") /\ obs[t].pre = "inserted" /\ ~obs[t].mut
            => frame[t].rc = 1 /\ frame[t].out = obs[t].val0

\* a thread has found another thread's key, stored past a home slot that holds a
\* different key, while the key's owner made no call on it
C1_Witness ==
    \E t \in Threads :
        /\ Done(t, "find") /\ obs[t].pre = "inserted" /\ ~obs[t].mut
        /\ frame[t].key \notin task[t].keys
        /\ frame[t].rc = 1
        /\ table[home(frame[t].key)].key \notin {frame[t].key, illegal_key}

\* C2, as stated: a find(k) called after remove(k) has returned success, and
\* returning before the owner calls insert(k, ...) again, fails.
C2_AsStated ==
    \A t \in Threads :
        Done(t, "find") /\ obs[t].pre = "removed" /\ ~obs[t].mut => frame[t].rc = 0

\* C3, as stated: at most one slot of a key's window holds the key.
C3_AsStated ==
    \A k \in DOMAIN hist :
        Cardinality({i \in Window(k) : table[i].key = k}) <= 1

\* C4, as stated: an insert(k, v2) called when the owner's last call on k was a
\* successful insert returns success and leaves the overwritten counter at least
\* 1 higher than it found it; a find(k) that follows returns success with v2.
C4_AsStated ==
    \A t \in Threads :
        /\ Done(t, "insert") /\ obs[t].pre = "inserted"
              => frame[t].rc = 1 /\ obs[t].inc.overwritten >= 1
        /\ Done(t, "find") /\ obs[t].pre = "inserted" /\ ~obs[t].mut
              => frame[t].rc = 1 /\ frame[t].out = obs[t].val0

\* C5, as stated: a remove(k, out) that returns success has written to out the
\* value of the last successful insert(k, ...).
C5_AsStated ==
    \A t \in Threads :
        Done(t, "remove") /\ frame[t].need /\ frame[t].rc = 1
            => frame[t].out = KeyHist(frame[t].key).val

\* C6: under SpecChurn (NThreads <= max_tries threads, colliding keys) no call of
\* thread_job returns anything but what thread_job expects, so no thread stops
\* with an error, and insert_err and remove_err stay 0.
C6_Churn ==
    /\ \A t \in Threads :
          /\ task[t].state = "run"
          /\ frame[t].pc = "idle" /\ task[t].calls > 0 => Expected(t)
    /\ stat.insert_err = 0
    /\ stat.remove_err = 0

\* every thread has gone through all the iterations of its loop, and inserts
\* have collided
C6_Witness ==
    /\ NThreads <= max_tries
    /\ \A t \in Threads : task[t].calls = 5 * ChurnIters /\ frame[t].pc = "idle"
    /\ stat.collision > 0

\* C7: when all the calls so far are n inserts of distinct keys sharing the home
\* index s (single thread, table empty at the start): if n <= max_tries the last
\* one has succeeded and the keys sit in slots s, s+1, ... in the order of their
\* insertion; the next one fails, with insert_err incremented by 1 and the slots
\* as they were.
C7_Saturation ==
    \A t \in Threads :
        (task[t].only_ins /\ task[t].calls > 0 /\ frame[t].pc = "idle"
         /\ Cardinality(Threads) = 1)
            => LET q == task[t].ins_seq
                   n == Len(q)
                   s == home(q[1])
                   m == IF n <= max_tries THEN n ELSE max_tries
               IN  (\A j \in 1 .. n : home(q[j]) = s)
                      => /\ \A j \in 1 .. m : table[s + j - 1].key = q[j]
                         /\ n <= max_tries => frame[t].rc = 1
                         /\ n = max_tries + 1
                               => frame[t].rc = 0 /\ obs[t].inc.insert_err = 1

\* the insert of the (max_tries + 1)-th colliding key has returned
C7_Witness ==
    \E t \in Threads :
        /\ task[t].only_ins /\ frame[t].pc = "idle"
        /\ Len(task[t].ins_seq) = max_tries + 1
        /\ frame[t].rc = 0

\* C8: an insert or a remove that returns failure has changed no slot.
C8_FailureWritesNothing ==
    \A t \in Threads :
        (Done(t, "insert") \/ Done(t, "remove")) /\ frame[t].rc = 0 => ~obs[t].wrote

\* an insert has failed (on a saturated chain), after a remove has failed
C8_Witness ==
    \E t \in Threads :
        /\ Done(t, "insert") /\ frame[t].rc = 0
        /\ stat.remove_err > 0

\* C9: a remove called when every slot is free returns failure and leaves
\* remove_err 1 higher.
C9_RemoveEmpty ==
    \A t \in Threads :
        Done(t, "remove") /\ obs[t].free0
            => frame[t].rc = 0 /\ obs[t].inc.remove_err = 1

\* a remove on a table emptied again after inserts and removes has returned
C9_Witness ==
    \E t \in Threads :
        /\ Done(t, "remove") /\ obs[t].free0
        /\ frame[t].rc = 0
        /\ stat.insert > 0

\* C10, as stated: a find(k) that returns success, called when (k, v) had been
\* inserted, with no insert(k, ...) in progress at any time during it (the owner
\* may be removing k), returns v.
C10_AsStated ==
    \A t \in Threads :
        (Done(t, "find") /\ frame[t].rc = 1
         /\ obs[t].pre \in {"inserted", "removing"} /\ ~obs[t].ins)
            => frame[t].out = obs[t].val0

\* C11, as stated: a find(k) that returns success, with an insert(k, v) by the
\* key's owner in progress at some time during it and no remove(k) in progress
\* at any time during it, returns a value that was inserted, never the value
\* the slot held before the insert's store (illegal_data).
C11_AsStated ==
    \A t \in Threads :
        (Done(t, "find") /\ frame[t].rc = 1 /\ obs[t].ins /\ ~obs[t].rem)
            => frame[t].out \in Values

\* the number of slots a call in progress has gone past
Probes(f) == f.slot - home(f.key)

\* the pcs at which the next step reads or writes the slot f.slot
AccessPcs == {"cas", "data_new", "data_ow", "key_rd", "data_rd", "data_wr", "key_wr"}

\* the steps a call has left at most on its current slot, the step at pc included
PcRank(pc) ==
    CASE pc = "stat_st" -> 5
      [] pc \in {"cas", "key_rd"} -> 4
      [] pc \in {"data_new", "data_ow", "col_ld", "data_rd"} -> 3
      [] pc \in {"ow_ld", "col_st", "data_wr", "ok_ld", "err_ld"} -> 2
      [] pc \in {"ow_st", "key_wr", "ok_st", "err_st"} -> 1
      [] pc = "idle" -> 0

StepsPerSlot == PcRank("stat_st") + 1

\* a bound on the steps a call in progress has left
Rank(f) == (max_tries - Probes(f)) * StepsPerSlot + PcRank(f.pc)

\* the next step of thread t's call in progress
call_step(t) == insert_step(t) \/ remove_step(t) \/ find_step(t)

\* C12: a call in progress can always take its next step, whatever the other
\* threads are doing; it looks at slots home .. home + max_tries - 1 only, never
\* going back to a slot; every step it takes brings it nearer to its return
\* (Rank decreases), so that it returns within StepsPerSlot * max_tries + 5 of
\* its own steps.
C12_WaitFree ==
    [][\A t \in Threads :
          LET f == frame[t]
              g == frame'[t]
          IN  /\ f.pc # "idle"
                    => /\ Probes(f) \in 0 .. max_tries
                       /\ f.pc \in AccessPcs => Probes(f) < max_tries
                       /\ ENABLED call_step(t)
              /\ g.pc # "idle" => Rank(g) \in 1 .. StepsPerSlot * max_tries + 5
              /\ (f.pc # "idle" /\ g.pc # "idle" /\ g # f)
                    => g.slot >= f.slot /\ Rank(g) < Rank(f)]_vars

\* a call has gone past all the max_tries slots of its window while another
\* thread's insert is in progress, after inserts have collided
C12_Witness ==
    \E t, u \in Threads :
        /\ t # u
        /\ frame[t].pc = "err_ld" /\ Probes(frame[t]) = max_tries
        /\ frame[u].pc # "idle" /\ frame[u].fn = "insert"
        /\ stat.collision > 0

\* the counters find increments
FindStats == {"search", "search_ok", "search_err"}

\* C13: no step of a find, from its call to its return, whether it succeeds or
\* fails, changes a slot's key or data or any counter but search, search_ok
\* and search_err.
C13_FindFrame ==
    [][\A t \in Threads :
          (frame'[t] # frame[t] /\ frame'[t].fn = "find")
              => /\ table' = table
                 /\ \A n \in StatNames \ FindStats : stat'[n] = stat[n]]_vars

\* a find has returned success, after a find has failed, with the found key
\* still stored
C13_Witness ==
    \E t \in Threads :
        /\ Done(t, "find") /\ frame[t].rc = 1
        /\ stat.search_err > 0
        /\ \E i \in DOMAIN table : table[i].key = frame[t].key

\* C14, as stated: no step decreases any of the nine counters, also when several
\* threads increment the same counter concurrently.
C14_AsStated ==
    [][\A n \in StatNames : stat'[n] >= stat[n]]_vars

\* C15: a step that changes a slot's key either is the compare-and-swap of an
\* insert, changing illegal_key to the insert's key, or is the key store of a
\* remove, changing a key to illegal_key; so no step changes a key k1 to a key
\* k2 with both different from illegal_key; the threads of SpecRace insert and
\* remove the same keys concurrently.
C15_KeyTransitions ==
    [][\A i \in DOMAIN table :
          table'[i].key # table[i].key
              => \/ /\ table[i].key = illegal_key
                    /\ \E t \in Threads :
                          /\ frame[t].fn = "insert" /\ frame[t].pc = "cas"
                          /\ frame[t].slot = i /\ table'[i].key = frame[t].key
                          /\ frame'[t] # frame[t]
                 \/ /\ table'[i].key = illegal_key
                    /\ \E t \in Threads :
                          /\ frame[t].fn = "remove" /\ frame[t].pc = "key_wr"
                          /\ frame[t].slot = i
                          /\ frame'[t] # frame[t]]_vars

\* two threads are inserting the same key at the same time, into the same slot:
\* one has claimed the slot, the other has found the key in it
C15_Witness ==
    \E t, u \in Threads :
        /\ t # u
        /\ frame[t].fn = "insert" /\ frame[t].pc = "data_new"
        /\ frame[u].fn = "insert" /\ frame[u].pc = "data_ow"
        /\ frame[u].key = frame[t].key /\ frame[u].slot = frame[t].slot

\* C16: the slot array has exactly the slots 0 .. size + max_tries - 1, all of
\* them [illegal_key, illegal_data] until the first call; the home index of a
\* call's key is in 0 .. size - 1; the slot a call reads or writes is one of
\* home, home + 1, ..., home + max_tries - 1, which is a slot of the array.
C16_SlotBounds ==
    /\ DOMAIN table = 0 .. size + max_tries - 1
    /\ (\A t \in Threads : task[t].calls = 0)
          => \A i \in 0 .. size + max_tries - 1 : table[i] = init_slot
    /\ \A t \in Threads :
          frame[t].pc # "idle"
              => /\ home(frame[t].key) \in 0 .. size - 1
                 /\ Probes(frame[t]) \in 0 .. max_tries
                 /\ frame[t].pc \in AccessPcs
                       => /\ Probes(frame[t]) <= max_tries - 1
                          /\ frame[t].slot \in 0 .. size + max_tries - 1

\* a call is about to write the last slot a probe can reach, past the size
\* slots that home indexes address
C16_Witness ==
    \E t \in Threads :
        /\ frame[t].pc \in {"data_new", "key_wr"}
        /\ frame[t].slot = (size - 1) + (max_tries - 1)
        /\ frame[t].slot >= size

\* C17, as stated: a hashtable_registry_add of a table that the registry holds
\* leaves the registry as it was, and whatever calls have been made no table
\* has more than one entry.
C17_AsStated ==
    /\ last.op = "add" /\ last.n0 > 0 => last.same
    /\ \A tb \in Tables : Cardinality(Entries(hashtable_registry, tb)) <= 1

\* C18: after hashtable_close(tb) no entry of the registry refers to tb, and the
\* entries that referred to other tables are as they were.
C18_CloseUnregisters ==
    last.op = "close"
        => /\ Entries(hashtable_registry, last.tb) = {}
           /\ last.keep

\* a table that had more than one entry has been closed
C18_Witness ==
    /\ last.op = "close"
    /\ last.n0 >= 2

\* C19: an init (whose allocation succeeds) of a table, called when every entry
\* of the registry refers to another table, returns 1 and leaves the registry as
\* it was, without the table; the table is allocated, and on it (the test's
\* table) an insert succeeds, a find and a remove succeed with the inserted
\* value when the key is stored and fail when it is not.
C19_RegistryFull ==
    (last.op = "init" /\ last.mem /\ last.full)
        => /\ last.rc = 1
           /\ last.same
           /\ Entries(hashtable_registry, last.tb) = {}
           /\ heap[last.tb] = "live"
           /\ last.tb = 1
                 => /\ DOMAIN table = 0 .. size + max_tries - 1
                    /\ \A t \in Threads :
                          /\ Done(t, "insert") => frame[t].rc = 1
                          /\ (Done(t, "find") \/ Done(t, "remove"))
                                => IF obs[t].pre = "inserted"
                                   THEN frame[t].rc = 1 /\ frame[t].out = obs[t].val0
                                   ELSE frame[t].rc = 0

\* the test's table has been constructed with the registry full of other
\* tables, and since then a key has been inserted, found and removed
C19_Witness ==
    /\ last.op = "init" /\ last.mem /\ last.full /\ last.tb = 1
    /\ \A i \in DOMAIN hashtable_registry : hashtable_registry[i] \notin {NULL, 1}
    /\ Done(0, "remove") /\ frame[0].rc = 1 /\ obs[0].pre = "inserted"
    /\ stat.search_ok > 0

\* C20: when the thread of SpecFill has made all its calls (n inserts of distinct
\* keys, all of which succeeded, then n finds, then n removes) and the last one
\* has returned, every slot is free and the insert, remove, search and
\* search_ok counters are all n.
C20_FillDrain ==
    \A t \in Threads :
        LET n == Len(task[t].plan)
        IN  (task[t].calls = 3 * n /\ frame[t].pc = "idle")
                => /\ AllFree
                   /\ stat.insert = n
                   /\ stat.remove = n
                   /\ stat.search = n
                   /\ stat.search_ok = n

\* FillMax keys have been inserted, with collisions, looked up and removed
C20_Witness ==
    \E t \in Threads :
        /\ Len(task[t].plan) = FillMax
        /\ task[t].calls = 3 * FillMax /\ frame[t].pc = "idle"
        /\ stat.collision > 0

\* what a find of key k returns on the slot array tb when no slot changes
\* during it: the data of the first slot of k's window that holds k
FindResult(tb, k) ==
    LET hits == {i \in Window(k) : tb[i].key = k}
    IN  IF hits = {} THEN [rc |-> 0, out |-> Undef]
        ELSE [rc |-> 1, out |-> tb[CHOOSE i \in hits : \A j \in hits : i <= j].data]

\* C21 (single thread): a step of a remove(k) changes no slot but the one it has
\* found k in, so that what a find of any other key returns is the same after
\* the step as before; and a find returns the data of the first slot of its
\* window that holds its key, whatever free slots come before it.
C21_RemoveFrame ==
    [][\A t \in Threads :
          LET f == frame[t]
          IN  /\ (f.fn = "remove" /\ f.pc # "idle" /\ frame'[t] # f)
                    => /\ \A i \in DOMAIN table : i # f.slot => table'[i] = table[i]
                       /\ table' # table => table[f.slot].key = f.key
                       /\ \A k2 \in DOMAIN hist :
                             k2 # f.key => FindResult(table', k2) = FindResult(table, k2)
              /\ (f.fn = "find" /\ f.pc # "idle" /\ frame'[t].pc = "idle")
                    => /\ frame'[t].rc = FindResult(table, f.key).rc
                       /\ frame'[t].rc = 1 => frame'[t].out = FindResult(table, f.key).out]_vars

\* a find has returned success with the value inserted for a key that is stored
\* past its home slot, the home slot having been freed by a remove
C21_Witness ==
    \E t \in Threads :
        /\ Done(t, "find") /\ frame[t].rc = 1 /\ frame[t].out = KeyHist(frame[t].key).val
        /\ table[home(frame[t].key)].key = illegal_key
        /\ \E k \in DOMAIN hist : KeyHist(k).st = "removed" /\ home(k) = home(frame[t].key)

\* C22, as stated (single thread): an insert that returns success has
\* incremented the insert counter by 1; an insert that returns failure has
\* incremented insert_err by 1 and has not incremented insert.
C22_AsStated ==
    \A t \in Threads :
        Done(t, "insert")
            => IF frame[t].rc = 1
               THEN obs[t].inc.insert = 1 /\ obs[t].inc.insert_err = 0
               ELSE obs[t].inc.insert = 0 /\ obs[t].inc.insert_err = 1

\* C23, as stated (single thread): a remove that returns success has
\* incremented the remove counter by 1; a remove that returns failure has
\* incremented remove_err by 1 and has not incremented remove.
C23_AsStated ==
    \A t \in Threads :
        Done(t, "remove")
            => IF frame[t].rc = 1
               THEN obs[t].inc.remove = 1 /\ obs[t].inc.remove_err = 0
               ELSE obs[t].inc.remove = 0 /\ obs[t].inc.remove_err = 1

\* C24 (single thread): a find that has returned has incremented search by 1
\* and, if it succeeded, search_ok by 1 and search_err not at all, if it failed,
\* search_err by 1 and search_ok not at all; between calls search is the sum of
\* search_ok and search_err.
C24_SearchCounters ==
    /\ \A t \in Threads :
          Done(t, "find")
              => /\ obs[t].inc.search = 1
                 /\ obs[t].inc.search_ok = (IF frame[t].rc = 1 THEN 1 ELSE 0)
                 /\ obs[t].inc.search_err = (IF frame[t].rc = 1 THEN 0 ELSE 1)
    /\ Quiet => stat.search = stat.search_ok + stat.search_err

\* a find has succeeded after finds have failed
C24_Witness ==
    \E t \in Threads :
        /\ Done(t, "find") /\ frame[t].rc = 1
        /\ stat.search_err >= 2
        /\ stat.search_ok >= 2

\* C25: an insert that has claimed a slot with its compare-and-swap and is about
\* to store its data holds that slot alone: the slot's key is its key, and no
\* other thread's insert is about to store data in the same slot for another
\* key.
C25_ExclusiveClaim ==
    \A t \in Threads :
        (frame[t].fn = "insert" /\ frame[t].pc = "data_new")
            => /\ table[frame[t].slot].key = frame[t].key
               /\ \A u \in Threads \ {t} :
                     (/\ frame[u].fn = "insert"
                      /\ frame[u].pc \in {"data_new", "data_ow"}
                      /\ frame[u].slot = frame[t].slot)
                         => frame[u].key = frame[t].key

\* two inserts of keys with the same home index have both claimed a slot and
\* are about to store their data, the second one after a collision
C25_Witness ==
    \E t, u \in Threads :
        /\ frame[t].fn = "insert" /\ frame[t].pc = "data_new"
        /\ frame[u].fn = "insert" /\ frame[u].pc = "data_new"
        /\ frame[t].key # frame[u].key
        /\ home(frame[t].key) = home(frame[u].key)
        /\ stat.collision > 0

\* C26: from the moment a remove(k) has found k in a slot to its store of
\* illegal_key, through its store of illegal_data, the slot's key is k.
C26_RemoveOwnsSlot ==
    \A t \in Threads :
        (frame[t].fn = "remove" /\ frame[t].pc \in {"data_rd", "data_wr", "key_wr"})
            => table[frame[t].slot].key = frame[t].key

\* a remove is about to store illegal_key while another thread's insert of a
\* colliding key has gone past the slot being freed
C26_Witness ==
    \E t, u \in Threads :
        /\ frame[t].fn = "remove" /\ frame[t].pc = "key_wr"
        /\ frame[u].fn = "insert" /\ frame[u].pc = "cas"
        /\ home(frame[u].key) = home(frame[t].key)
        /\ frame[u].slot > frame[t].slot

\* the thread that owns key k
Owner(k) == CHOOSE t \in Threads : k \in task[t].keys

\* C27: a value stored for one key is never seen under another key: a slot
\* that holds a key holds illegal_data or a value passed to an insert of that
\* key, a find that returns success outputs such a value, and remove stores
\* illegal_key into a slot whose data is already illegal_data.
C27_NoStaleValue ==
    /\ \A i \in DOMAIN table :
          table[i].key # illegal_key
              => table[i].data \in {illegal_data} \cup ValuesOf(Owner(table[i].key))
    /\ \A t \in Threads :
          /\ (Done(t, "find") /\ frame[t].rc = 1)
                => frame[t].out \in {illegal_data} \cup ValuesOf(Owner(frame[t].key))
          /\ (frame[t].fn = "remove" /\ frame[t].pc = "key_wr")
                => table[frame[t].slot].data = illegal_data

\* the home slot, freed by a remove of one key, holds the other key and its
\* value (no insert has ever collided, so every key stored was stored in the
\* home slot), and the thread that removed has found the other key's value
C27_Witness ==
    \E t, u \in Threads :
        \E k \in task[t].keys, k2 \in task[u].keys :
            /\ t # u /\ home(k) = home(k2)
            /\ stat.collision = 0
            /\ hist[k].st = "removed"
            /\ table[home(k2)].key = k2
            /\ table[home(k2)].data \in ValuesOf(u)
            /\ Done(t, "find") /\ frame[t].key = k2 /\ frame[t].rc = 1
            /\ frame[t].out \in ValuesOf(u)

\* C28, as stated: an insert that returns failure has seen, at some instant
\* between its call and its return, every slot of its key's window hold a
\* key other than its own, also with other threads inserting and removing
\* other keys.
C28_AsStated ==
    \A t \in Threads :
        (task[t].track /\ Done(t, "insert") /\ frame[t].rc = 0) => obs[t].sat

\* C29, as stated: what hashtable_show prints after any constructions and
\* destructions of tables is the header row and then one row for every table
\* that is registered, the rows in the order in which the tables were
\* registered.
C29_AsStated ==
    last.op = "show" => last.rows = <<"Name">> \o last.order

\* C30, as stated: no step of an insert of illegal_key changes the slot array,
\* and when the window holds a free slot the insert returns success from the
\* first free slot.
C30_AsStated ==
    [][\A t \in Threads :
          LET f == frame[t]
              free == {i \in Window(f.key) : table[i].key = illegal_key}
          IN  (f.fn = "insert" /\ f.pc # "idle" /\ f.key = illegal_key /\ frame'[t] # f)
                  => /\ table' = table
                     /\ (frame'[t].pc = "idle" /\ free # {})
                           => /\ frame'[t].rc = 1
                              /\ \A i \in free : f.slot <= i]_vars

\* C31: in every state, the states in the middle of an insert or a remove
\* included, a slot whose key is illegal_key holds illegal_data (threads that
\* each write their own key, none of them illegal_key).
C31_FreeSlotEmpty ==
    \A i \in DOMAIN table : table[i].key = illegal_key => table[i].data = illegal_data

\* one thread has removed its key, which had a value, the home slot is free,
\* and another thread stands between the compare-and-swap and the data store
\* of an insert into the next slot
C31_Witness ==
    \E t, u \in Threads :
        /\ t # u
        /\ Done(t, "remove") /\ frame[t].rc = 1 /\ frame[t].out \in Values
        /\ frame[u].fn = "insert" /\ frame[u].pc = "data_new"
        /\ frame[u].slot = home(frame[t].key) + 1
        /\ table[home(frame[t].key)].key = illegal_key

\* C32, as stated: a find of key k that returns success never outputs a value
\* that was passed to insert with a different key (every insert stores its
\* key as the value, so such a value is a different key).
C32_AsStated ==
    \A t \in Threads :
        (Done(t, "find") /\ frame[t].rc = 1)
            => frame[t].out \notin (DOMAIN hist \ {frame[t].key})

\* C33: a find of key k that returns failure has passed, between its call and
\* its return, a state in which no slot of k's window held k (the key has a
\* single writer).
C33_FailureSawAbsent ==
    \A t \in Threads :
        (task[t].track /\ Done(t, "find") /\ frame[t].rc = 0) => obs[t].gone

\* a find has failed for a key whose insert had returned success before the
\* find was called and whose latest insert has returned success again: the
\* key was removed and inserted again during the find
C33_Witness ==
    \E t \in Threads :
        /\ task[t].track /\ Done(t, "find") /\ frame[t].rc = 0
        /\ obs[t].pre = "inserted" /\ hist[frame[t].key].st = "inserted"
        /\ ~Absent(table, frame[t].key)

\* C34, as stated: a find or a remove of illegal_key, with a free slot in the
\* window of illegal_key, returns success with the value illegal_data and has
\* raised neither search_err nor remove_err, and no step of the remove makes
\* a free slot occupied.
C34_AsStated ==
    [][\A t \in Threads :
          LET f == frame[t]
              g == frame'[t]
              free == {i \in Window(illegal_key) : table[i].key = illegal_key}
          IN  (/\ f.fn \in {"find", "remove"} /\ f.pc # "idle"
               /\ f.key = illegal_key /\ g # f)
                  => /\ \A i \in free : table'[i].key = illegal_key
                     /\ (g.pc = "idle" /\ free # {})
                           => /\ g.rc = 1
                              /\ g.need => g.out = illegal_data
                              /\ obs'[t].inc.search_err = 0
                              /\ obs'[t].inc.remove_err = 0]_vars

\* C35, as stated: hashtable_show(buf, len) writes no offset >= len, returns
\* a count <= len, and its running offset never exceeds len, for every
\* number of registered tables and every len.
C35_AsStated ==
    last.op = "show"
        => /\ last.top < last.len
           /\ last.chars <= last.len
           /\ ~last.over

====
